---- MODULE Spec2Model ----
(***************************************************************************)
(* CompetitivePulse: the REST handlers of server/routes.ts                 *)
(* (src/unnamed/part_002) over the DatabaseStorage of server/storage.ts    *)
(* (src/server/email.ts, lines 79-284) and the tables of shared/schema.ts  *)
(* (src/unnamed/part_000).                                                 *)
(*                                                                         *)
(* Units.  A decimal(_,2) column (price_range_min, price_range_max,        *)
(* market_share, price) is an integer number of hundredths.  A value that  *)
(* PostgreSQL's numeric division produces is an integer number of          *)
(* 10^-NumericScale.  trendScore is an integer number of tenths, which is  *)
(* what toFixed(1) leaves.  Time is an integer number of ticks,            *)
(* TicksPerDay ticks to a calendar day.                                    *)
(*                                                                         *)
(* Every awaited database statement is one atomic step, taken with the     *)
(* synchronous code around it; uploads counts the files in uploads/.       *)
(***************************************************************************)
EXTENDS Integers, Sequences, FiniteSets, TLC

\* ------------------------------------------------------------- bounds
\* Rows ever inserted into competitors (the serial id stops here).
MaxCompetitors == 4
\* Rows ever inserted into pricing_data.
MaxPricing == 3
\* The clock stops here.
MaxTime == 4
\* Ticks to a calendar day.
TicksPerDay == 2
\* Fractional digits kept by numeric division (PostgreSQL keeps at least 16
\* significant digits; the model keeps fewer, so values fit TLC's integers).
NumericScale == 4

\* Characters of the longest days query parameter.
MaxQueryLen == 2
\* Files in uploads/ at a time.
MaxUploads == 2
\* Rows ever inserted into users (the serial id stops here).
MaxUsers == 4
\* Rows ever inserted into competitors and into pricing_data in the
\* specifications that run every route.
FewCompetitors == 2
FewPricing == 3
\* Rows ever inserted into competitors and into pricing_data in the
\* specifications of the gates and of the user routes.
GateRows == 1

\* ------------------------------------------------------------- values
\* No session user: req.isAuthenticated() is false.
NoUser == 0

\* A request field that is absent (undefined in JavaScript).
Undefined == "<undefined>"

\* The text of a decimal field, as a request body or a CSV cell carries it:
\* Dec(n) is a numeral worth n hundredths, NotNumeral any other non-empty
\* text, EmptyText the empty string and NoText an absent field.
Dec(n) == [kind |-> "dec", val |-> n]
NotNumeral == [kind |-> "text", val |-> 0]
EmptyText == [kind |-> "empty", val |-> 0]
NoText == [kind |-> "undefined", val |-> 0]

\* A JavaScript number: NaN or an integer.
Num(n) == [nan |-> FALSE, val |-> n]
JsNaN == [nan |-> TRUE, val |-> 0]
\* x || d on a JavaScript number: NaN and 0 are falsy.
OrDefault(x, d) == IF x.nan \/ x.val = 0 THEN d ELSE x.val

\* A nullable SQL value.
SqlNull == [isNull |-> TRUE, val |-> 0]
SqlVal(n) == [isNull |-> FALSE, val |-> n]
\* Number(v) of a column the driver returns as null or as a numeral.
Number(v) == IF v.isNull THEN Num(0) ELSE Num(v.val)

Slots == {1, 2}

\* trendStatusEnum
TrendStatuses == {"growing", "declining", "stable"}
\* userRoleEnum
UserRoles == {"admin", "analyst", "viewer"}

Max(a, b) == IF a >= b THEN a ELSE b
Min(a, b) == IF a <= b THEN a ELSE b
Abs(a) == IF a >= 0 THEN a ELSE 0 - a

RECURSIVE Pow10(_)
Pow10(n) == IF n = 0 THEN 1 ELSE 10 * Pow10(n - 1)

\* n / d rounded to the nearest integer, ties away from zero (d > 0): the
\* rounding of PostgreSQL's numeric division and of Number.prototype.toFixed.
RoundDiv(n, d) ==
    IF n >= 0 THEN (2 * n + d) \div (2 * d)
    ELSE 0 - ((2 * (0 - n) + d) \div (2 * d))

VARIABLES users, userSeq, competitors, pricingData, competitorSeq, pricingSeq, now, uploads, pc, local

vars ==
    <<users, userSeq, competitors, pricingData, competitorSeq, pricingSeq, now, uploads, pc,
      local>>

Idle == [op |-> "idle"]

\* A row of users.
UserRow(username, email, role, password) ==
    [username |-> username, email |-> email, role |-> role, password |-> password]

\* A password column: the text itself, or hashPassword of the text (the
\* scrypt digest with its salt, from which the text cannot be read).
Plain(text) == [hashed |-> FALSE, of |-> text]
Hash(text) == [hashed |-> TRUE, of |-> text]

\* The three seeded accounts, one of each role.
SeededUsers ==
    (1 :> UserRow("admin", "admin@bi", "admin", Hash("seed")))
      @@ (2 :> UserRow("analyst", "analyst@bi", "analyst", Hash("seed")))
      @@ (3 :> UserRow("viewer", "viewer@bi", "viewer", Hash("seed")))

\* The database after migration, with the three seeded accounts; no request
\* in flight.
Init ==
    /\ users = SeededUsers
    /\ userSeq = 3
    /\ competitors = << >>
    /\ pricingData = << >>
    /\ competitorSeq = 0
    /\ pricingSeq = 0
    /\ now = 0
    /\ uploads = 0
    /\ pc = [s \in Slots |-> "idle"]
    /\ local = [s \in Slots |-> Idle]

Sessions == {NoUser} \cup {1, 2, 3}

\* req.isAuthenticated()
IsAuthenticated(u) == u \in DOMAIN users
RoleOf(u) == users[u].role

\* requireAuth: the status it answers, 0 when it calls next().
RequireAuth(u) == IF ~IsAuthenticated(u) THEN 401 ELSE 0
\* requireAdmin
RequireAdmin(u) == IF ~IsAuthenticated(u) \/ RoleOf(u) # "admin" THEN 403 ELSE 0
\* Mutant of RequireAnalystOrAdmin: any authenticated session passes.
RequireAnyRole(u) == IF ~IsAuthenticated(u) THEN 403 ELSE 0

\* requireAnalystOrAdmin
RequireAnalystOrAdmin(u) ==
    IF ~IsAuthenticated(u) \/ RoleOf(u) \notin {"admin", "analyst"} THEN 403 ELSE 0

\* The handler of slot s ends with this response.
Respond(s, r) ==
    /\ pc' = [pc EXCEPT ![s] = "done"]
    /\ local' = [local EXCEPT ![s] = r]

\* The response has been sent; the slot is free again.
Finish(s) ==
    /\ pc[s] = "done"
    /\ pc' = [pc EXCEPT ![s] = "idle"]
    /\ local' = [local EXCEPT ![s] = Idle]
    /\ UNCHANGED <<users, userSeq, competitors, pricingData, competitorSeq, pricingSeq, now, uploads>>

\* ------------------------------------------------------ storage layer
RECURSIVE SumFn(_)
\* The sum of the values of a function with a finite domain.
SumFn(f) ==
    IF DOMAIN f = {} THEN 0
    ELSE LET i == CHOOSE j \in DOMAIN f : TRUE
         IN f[i] + SumFn([j \in DOMAIN f \ {i} |-> f[j]])

\* A function without the argument i.
Without(f, i) == [j \in DOMAIN f \ {i} |-> f[j]]

\* The cast of a decimal text to numeric(p, 2) succeeds: a numeral whose
\* absolute value is below 10^(p-2).  limit is 10^p hundredths.
CastsToNumeric(txt, limit) == txt.kind = "dec" /\ Abs(txt.val) < limit

\* decimal(5, 2): market_share.
ShareLimit == 100000
\* decimal(10, 2): 10^10 hundredths is beyond every value of the model.
PriceCasts(txt) == txt.kind = "dec"

\* Mutant of CompetitorInsertable: name is unique.
CompetitorInsertableUniqueName(v, createdBy) ==
    /\ v.name # Undefined
    /\ v.category # Undefined
    /\ PriceCasts(v.priceRangeMin)
    /\ PriceCasts(v.priceRangeMax)
    /\ CastsToNumeric(v.marketShare, ShareLimit)
    /\ v.trendStatus \in TrendStatuses \cup {Undefined}
    /\ createdBy \in DOMAIN users
    /\ \A c \in DOMAIN competitors : competitors[c].name # v.name

\* The INSERT of createCompetitor succeeds: the NOT NULL columns are given,
\* the decimals cast, trend_status is a member of the enum (or defaulted) and
\* created_by references a user.
CompetitorInsertable(v, createdBy) ==
    /\ v.name # Undefined
    /\ v.category # Undefined
    /\ PriceCasts(v.priceRangeMin)
    /\ PriceCasts(v.priceRangeMax)
    /\ CastsToNumeric(v.marketShare, ShareLimit)
    /\ v.trendStatus \in TrendStatuses \cup {Undefined}
    /\ createdBy \in DOMAIN users

\* The row createCompetitor inserts.
NewCompetitor(v, createdBy) ==
    [name |-> v.name,
     category |-> v.category,
     priceRangeMin |-> v.priceRangeMin.val,
     priceRangeMax |-> v.priceRangeMax.val,
     marketShare |-> v.marketShare.val,
     trendStatus |-> IF v.trendStatus = Undefined THEN "stable" ELSE v.trendStatus,
     createdAt |-> now,
     updatedAt |-> now,
     createdBy |-> createdBy]

\* insertCompetitorSchema.parse(body) succeeds: the notNull columns without
\* a default are strings, trendStatus is a member of the enum or absent.
ValidCompetitorBody(b) ==
    /\ b.name # Undefined
    /\ b.category # Undefined
    /\ b.priceRangeMin.kind # "undefined"
    /\ b.priceRangeMax.kind # "undefined"
    /\ b.marketShare.kind # "undefined"
    /\ b.trendStatus \in TrendStatuses \cup {Undefined}

\* ------------------------------------------------- POST /api/competitors
\* One step: the gate, the schema and the INSERT.  cap bounds the serial id.
CreateCompetitor(s, u, b, cap) ==
    /\ pc[s] = "idle"
    /\ IF RequireAnalystOrAdmin(u) # 0
       THEN /\ Respond(s, [op |-> "createCompetitor", user |-> u, status |-> 403])
            /\ UNCHANGED <<competitors, competitorSeq>>
       ELSE IF ~ValidCompetitorBody(b)
       THEN /\ Respond(s, [op |-> "createCompetitor", user |-> u, status |-> 400])
            /\ UNCHANGED <<competitors, competitorSeq>>
       ELSE IF ~CompetitorInsertable(b, u)
       THEN /\ Respond(s, [op |-> "createCompetitor", user |-> u, status |-> 500])
            /\ UNCHANGED <<competitors, competitorSeq>>
       ELSE /\ competitorSeq < cap
            /\ competitorSeq' = competitorSeq + 1
            /\ competitors' = competitors @@ (competitorSeq + 1 :> NewCompetitor(b, u))
            /\ Respond(s, [op |-> "createCompetitor", user |-> u, status |-> 201,
                           id |-> competitorSeq + 1])
    /\ UNCHANGED <<users, userSeq, pricingData, pricingSeq, now, uploads>>

\* ------------------------------------------------ getDashboardMetrics
\* COUNT(*)::int
SqlCount(T) == Cardinality(DOMAIN T)

\* Mutant of MidPrice: the floor of the range alone.
MidPriceOfMin(r) == r.priceRangeMin * Pow10(NumericScale - 2)

\* (price_range_min + price_range_max) / 2 of one row, at NumericScale.
MidPrice(r) == RoundDiv((r.priceRangeMin + r.priceRangeMax) * Pow10(NumericScale - 2), 2)

\* AVG((price_range_min + price_range_max) / 2)::numeric, at NumericScale;
\* NULL over no rows.
SqlAvgPrice(T) ==
    IF DOMAIN T = {} THEN SqlNull
    ELSE SqlVal(RoundDiv(SumFn([i \in DOMAIN T |-> MidPrice(T[i])]), Cardinality(DOMAIN T)))

\* Mutant of SqlSumShare: the total capped at 100.
SqlSumShareCapped(T) ==
    IF DOMAIN T = {} THEN SqlNull
    ELSE SqlVal(Min(10000, SumFn([i \in DOMAIN T |-> T[i].marketShare])))

\* SUM(market_share)::numeric; NULL over no rows.
SqlSumShare(T) ==
    IF DOMAIN T = {} THEN SqlNull
    ELSE SqlVal(SumFn([i \in DOMAIN T |-> T[i].marketShare]))

\* COUNT(CASE WHEN trend_status = st THEN 1 END)::int
SqlCountTrend(T, st) == Cardinality({i \in DOMAIN T : T[i].trendStatus = st})

\* The trend query: growing, declining, total.
SqlTrend(T) ==
    [growing |-> SqlCountTrend(T, "growing"),
     declining |-> SqlCountTrend(T, "declining"),
     total |-> SqlCount(T)]

\* Mutant of ToFixed1: the digits after the first decimal cut off.
ToFixed1Truncated(n, d) == (10 * n) \div d

\* x.toFixed(1) read back by Number, for the number n / d (d > 0): tenths.
ToFixed1(n, d) == RoundDiv(10 * n, d)

\* Mutant of TrendScore: no neutral midpoint over no rows.
TrendScoreZeroWhenEmpty(tr) ==
    LET raw == IF tr.total > 0
               THEN ToFixed1((tr.growing - tr.declining) * 5 + 5 * tr.total, tr.total)
               ELSE 0
    IN Max(0, Min(100, raw))

\* total > 0 ? ((growing - declining) / total * 5) + 5 : 5, then
\* Math.max(0, Math.min(10, Number(trendScore.toFixed(1)))): tenths.
TrendScore(tr) ==
    LET raw == IF tr.total > 0
               THEN ToFixed1((tr.growing - tr.declining) * 5 + 5 * tr.total, tr.total)
               ELSE ToFixed1(5, 1)
    IN Max(0, Min(100, raw))

\* ---------------------------------------- GET /api/dashboard/metrics
\* requireAuth, then the first query: the count.
MetricsCount(s, u) ==
    /\ pc[s] = "idle"
    /\ IF RequireAuth(u) # 0
       THEN Respond(s, [op |-> "metrics", status |-> 401])
       ELSE /\ pc' = [pc EXCEPT ![s] = "metricsAvg"]
            /\ local' = [local EXCEPT ![s] = [op |-> "metrics", count |-> SqlCount(competitors)]]
    /\ UNCHANGED <<users, userSeq, competitors, pricingData, competitorSeq, pricingSeq, now, uploads>>

\* The second query: the average price.
MetricsAvg(s) ==
    /\ pc[s] = "metricsAvg"
    /\ pc' = [pc EXCEPT ![s] = "metricsShare"]
    /\ local' = [local EXCEPT ![s] =
                   [op |-> "metrics", count |-> local[s].count,
                    avgPrice |-> SqlAvgPrice(competitors)]]
    /\ UNCHANGED <<users, userSeq, competitors, pricingData, competitorSeq, pricingSeq, now, uploads>>

\* The third query: the total share.
MetricsShare(s) ==
    /\ pc[s] = "metricsShare"
    /\ pc' = [pc EXCEPT ![s] = "metricsTrend"]
    /\ local' = [local EXCEPT ![s] =
                   [op |-> "metrics", count |-> local[s].count,
                    avgPrice |-> local[s].avgPrice,
                    totalShare |-> SqlSumShare(competitors)]]
    /\ UNCHANGED <<users, userSeq, competitors, pricingData, competitorSeq, pricingSeq, now, uploads>>

\* The record getDashboardMetrics returns from its four query results.
MetricsRecord(count, avgPrice, totalShare, trend) ==
    [totalCompetitors |-> OrDefault(Num(count), 0),
     avgPrice |-> OrDefault(Number(avgPrice), 0),
     marketShare |-> OrDefault(Number(totalShare), 0),
     trendScore |-> TrendScore(trend)]

\* The fourth query, the trend counts, and the response.
MetricsTrend(s) ==
    /\ pc[s] = "metricsTrend"
    /\ Respond(s, [op |-> "metrics", status |-> 200,
                   body |-> MetricsRecord(local[s].count, local[s].avgPrice,
                                          local[s].totalShare, SqlTrend(competitors))])
    /\ UNCHANGED <<users, userSeq, competitors, pricingData, competitorSeq, pricingSeq, now, uploads>>

\* ---------------------------------------------- PUT /api/competitors/:id
\* insertCompetitorSchema.partial().parse(body) succeeds: every field may be
\* absent, trendStatus if present is a member of the enum.
ValidPartialCompetitorBody(b) == b.trendStatus \in TrendStatuses \cup {Undefined}

\* The UPDATE of updateCompetitor fails: a parameter is no numeral, or the
\* updated row would overflow decimal(5, 2).
UpdateFails(id, b) ==
    \/ b.priceRangeMin.kind \in {"text", "empty"}
    \/ b.priceRangeMax.kind \in {"text", "empty"}
    \/ b.marketShare.kind \in {"text", "empty"}
    \/ /\ id \in DOMAIN competitors
       /\ b.marketShare.kind = "dec"
       /\ Abs(b.marketShare.val) >= ShareLimit

\* The row after .set({ ...updates, updatedAt: new Date() }).
UpdatedCompetitor(r, b) ==
    [name |-> IF b.name = Undefined THEN r.name ELSE b.name,
     category |-> IF b.category = Undefined THEN r.category ELSE b.category,
     priceRangeMin |-> IF b.priceRangeMin.kind = "undefined" THEN r.priceRangeMin
                       ELSE b.priceRangeMin.val,
     priceRangeMax |-> IF b.priceRangeMax.kind = "undefined" THEN r.priceRangeMax
                       ELSE b.priceRangeMax.val,
     marketShare |-> IF b.marketShare.kind = "undefined" THEN r.marketShare
                     ELSE b.marketShare.val,
     trendStatus |-> IF b.trendStatus = Undefined THEN r.trendStatus ELSE b.trendStatus,
     createdAt |-> r.createdAt,
     updatedAt |-> now,
     createdBy |-> r.createdBy]

\* One step: the gate, the partial schema and the UPDATE.
UpdateCompetitor(s, u, id, b) ==
    /\ pc[s] = "idle"
    /\ IF RequireAnalystOrAdmin(u) # 0
       THEN /\ Respond(s, [op |-> "updateCompetitor", user |-> u, status |-> 403])
            /\ UNCHANGED competitors
       ELSE IF ~ValidPartialCompetitorBody(b)
       THEN /\ Respond(s, [op |-> "updateCompetitor", user |-> u, status |-> 400])
            /\ UNCHANGED competitors
       ELSE IF UpdateFails(id, b)
       THEN /\ Respond(s, [op |-> "updateCompetitor", user |-> u, status |-> 500])
            /\ UNCHANGED competitors
       ELSE IF id \notin DOMAIN competitors
       THEN /\ Respond(s, [op |-> "updateCompetitor", user |-> u, status |-> 404])
            /\ UNCHANGED competitors
       ELSE /\ competitors' = [competitors EXCEPT ![id] = UpdatedCompetitor(@, b)]
            /\ Respond(s, [op |-> "updateCompetitor", user |-> u, status |-> 200, id |-> id])
    /\ UNCHANGED <<users, userSeq, pricingData, competitorSeq, pricingSeq, now, uploads>>

\* ------------------------------------------- DELETE /api/competitors/:id
\* The pricing rows that reference competitor id.
PricingOf(P, id) == {k \in DOMAIN P : P[k].competitorId = id}

\* Mutant of DeletePricingOf: no WHERE clause.
DeletePricingOfAll(P, id) == << >>

\* db.delete(pricingData).where(eq(pricingData.competitorId, id))
DeletePricingOf(P, id) == [k \in DOMAIN P \ PricingOf(P, id) |-> P[k]]

\* requireAdmin, then the first statement of deleteCompetitor.
\* The frame keeps whether the statement removed a row.
DeleteCompetitorPricing(s, u, id) ==
    /\ pc[s] = "idle"
    /\ IF RequireAdmin(u) # 0
       THEN /\ Respond(s, [op |-> "deleteCompetitor", user |-> u, status |-> 403])
            /\ UNCHANGED pricingData
       ELSE /\ pricingData' = DeletePricingOf(pricingData, id)
            /\ pc' = [pc EXCEPT ![s] = "deleteRow"]
            /\ local' = [local EXCEPT ![s] =
                           [op |-> "deleteCompetitor", user |-> u, id |-> id,
                            removed |-> PricingOf(pricingData, id) # {}]]
    /\ UNCHANGED <<users, userSeq, competitors, competitorSeq, pricingSeq, now, uploads>>

\* The second statement: the competitor row.  pricing_data.competitor_id
\* references competitors.id without ON DELETE, so the statement fails while
\* a pricing row still references the competitor.
DeleteCompetitorRow(s) ==
    /\ pc[s] = "deleteRow"
    /\ IF PricingOf(pricingData, local[s].id) # {}
       THEN /\ Respond(s, [op |-> "deleteCompetitor", user |-> local[s].user,
                            status |-> 500, id |-> local[s].id])
            /\ UNCHANGED competitors
       ELSE /\ competitors' = Without(competitors, local[s].id)
            /\ Respond(s, [op |-> "deleteCompetitor", user |-> local[s].user,
                            status |-> 204, id |-> local[s].id])
    /\ UNCHANGED <<users, userSeq, pricingData, competitorSeq, pricingSeq, now, uploads>>

\* ------------------------------------------------ POST /api/pricing-data
\* Mutant of PricingInsertable: competitor_id is not a foreign key.
PricingInsertableUnchecked(v) == PriceCasts(v.price)

\* The INSERT of createPricingData succeeds: the price casts and
\* competitor_id references a competitor.
PricingInsertable(v) ==
    /\ PriceCasts(v.price)
    /\ v.competitorId \in DOMAIN competitors

\* The row createPricingData inserts.
NewPricing(v) == [competitorId |-> v.competitorId, price |-> v.price.val, recordedAt |-> now]

\* insertPricingDataSchema.parse(body) succeeds: competitorId is a number and
\* price a string.  An absent competitorId is 0 here.
ValidPricingBody(b) == b.competitorId # 0 /\ b.price.kind # "undefined"

\* One step: the gate, the schema and the INSERT.  cap bounds the serial id.
CreatePricing(s, u, b, cap) ==
    /\ pc[s] = "idle"
    /\ IF RequireAnalystOrAdmin(u) # 0
       THEN /\ Respond(s, [op |-> "createPricing", user |-> u, status |-> 403])
            /\ UNCHANGED <<pricingData, pricingSeq>>
       ELSE IF ~ValidPricingBody(b)
       THEN /\ Respond(s, [op |-> "createPricing", user |-> u, status |-> 400])
            /\ UNCHANGED <<pricingData, pricingSeq>>
       ELSE IF ~PricingInsertable(b)
       THEN /\ Respond(s, [op |-> "createPricing", user |-> u, status |-> 500])
            /\ UNCHANGED <<pricingData, pricingSeq>>
       ELSE /\ pricingSeq < cap
            /\ pricingSeq' = pricingSeq + 1
            /\ pricingData' = pricingData @@ (pricingSeq + 1 :> NewPricing(b))
            /\ Respond(s, [op |-> "createPricing", user |-> u, status |-> 201, id |-> pricingSeq + 1])
    /\ UNCHANGED <<users, userSeq, competitors, competitorSeq, now, uploads>>

\* ------------------------------------------------- POST /api/bulk-upload
\* toLowerCase, over the names of the model.
Lower(str) == CASE str = "Acme" -> "acme" [] str = "ACME" -> "acme" [] OTHER -> str

\* parseFloat of a cell: the numeral's value, NaN for any other text, for
\* the empty string and for undefined.
ParseFloat(txt) == IF txt.kind = "dec" THEN Num(txt.val) ELSE JsNaN

\* The rowData of one data line: the cell under every canonical header key;
\* Undefined or NoText under a key the header lacks, "" or EmptyText for an
\* empty or missing cell.
RowData(name, industry, category, min, max, share, trend, competitor, price) ==
    [name |-> name, industry |-> industry, category |-> category,
     price_range_min |-> min, price_range_max |-> max, market_share |-> share,
     trend_status |-> trend, competitor |-> competitor, price |-> price]

\* A data line of a competitors file with the columns name, price_range_min,
\* price_range_max, market_share, trend_status.
CompetitorLine(name, min, max, share, trend) ==
    [blank |-> FALSE,
     row |-> RowData(name, Undefined, Undefined, min, max, share, trend, Undefined, NoText)]

\* A data line of a pricing file with the columns competitor, price.
PricingLine(competitor, price) ==
    [blank |-> FALSE,
     row |-> RowData(Undefined, Undefined, Undefined, NoText, NoText, NoText, Undefined,
                     competitor, price)]

\* The header line, and a line that trims to nothing.
HeaderLine ==
    [blank |-> FALSE,
     row |-> RowData(Undefined, Undefined, Undefined, NoText, NoText, NoText, Undefined,
                     Undefined, NoText)]
BlankLine == [blank |-> TRUE, row |-> HeaderLine.row]

\* req.file: absent, or the lines of the staged file.
NoFile == [staged |-> FALSE, lines |-> << >>]
File(lines) == [staged |-> TRUE, lines |-> lines]

\* Mutant of NonBlank: blank lines are kept.
NonBlankUnfiltered(lines) == lines

\* fileContent.split('\n').filter(line => line.trim())
NonBlank(lines) == SelectSeq(lines, LAMBDA l : ~l.blank)

\* Mutant of TooFewLines: a header alone is enough.
TooFewLinesHeaderOnly(lines) == Len(NonBlank(lines)) < 1

\* lines.length < 2
TooFewLines(lines) == Len(NonBlank(lines)) < 2

\* a || b on strings: the empty string and undefined are falsy.
StrOr(a, b) == IF a = "" \/ a = Undefined THEN b ELSE a
\* a || b on the text of a decimal cell.
TextOr(a, b) == IF a.kind \in {"empty", "undefined"} THEN b ELSE a

\* competitorData of one row.
CompetitorFromRow(row) ==
    [name |-> row.name,
     category |-> StrOr(row.industry, StrOr(row.category, "Technology")),
     priceRangeMin |-> TextOr(row.price_range_min, Dec(0)),
     priceRangeMax |-> TextOr(row.price_range_max, Dec(10000)),
     marketShare |-> TextOr(row.market_share, Dec(0)),
     trendStatus |-> StrOr(row.trend_status, "stable")]

\* (parseFloat(rowData.price) || 0).toString()
PriceFromRow(row) == Dec(OrDefault(ParseFloat(row.price), 0))

\* errors.slice(0, 10)
ErrorLimit == 10

\* Mutant of FirstMatches: the names are not compared.
FirstMatchesAnyName(T, competitor) ==
    {c \in DOMAIN T : \A o \in DOMAIN T : T[o].updatedAt <= T[c].updatedAt}

\* competitors.find(c => c.name.toLowerCase() === rowData.competitor?.toLowerCase())
\* over getAllCompetitors(), which orders by updatedAt descending: the
\* matches that may come first (rows of equal updatedAt come in any order).
FirstMatches(T, competitor) ==
    LET matches == {c \in DOMAIN T : competitor # Undefined
                                      /\ Lower(T[c].name) = Lower(competitor)}
    IN {c \in matches : \A o \in matches : T[o].updatedAt <= T[c].updatedAt}

\* The gate, multer and the synchronous head of the handler: the file is
\* staged in uploads/, read and split.  cap bounds the files left there.
BulkStart(s, u, file, type, cap) ==
    /\ pc[s] = "idle"
    /\ IF RequireAnalystOrAdmin(u) # 0
       THEN /\ Respond(s, [op |-> "bulkUpload", user |-> u, status |-> 403])
            /\ UNCHANGED uploads
       ELSE IF ~file.staged
       THEN /\ Respond(s, [op |-> "bulkUpload", user |-> u, status |-> 400, staged |-> FALSE])
            /\ UNCHANGED uploads
       ELSE IF TooFewLines(file.lines)
       THEN /\ uploads < cap
            /\ uploads' = uploads + 1
            /\ Respond(s, [op |-> "bulkUpload", user |-> u, status |-> 400, staged |-> TRUE,
                           lines |-> file.lines])
       ELSE IF type \notin {"competitors", "pricing"}
       THEN \* no branch of the loop runs; the file is unlinked
            /\ UNCHANGED uploads
            /\ Respond(s, [op |-> "bulkUpload", user |-> u, status |-> 200, type |-> type,
                           lines |-> file.lines, recordsProcessed |-> 0,
                           totalRows |-> Len(NonBlank(file.lines)) - 1,
                           errors |-> << >>])
       ELSE /\ uploads < cap
            /\ uploads' = uploads + 1
            /\ pc' = [pc EXCEPT ![s] = "bulkRow"]
            /\ local' = [local EXCEPT ![s] =
                           [op |-> "bulkUpload", user |-> u, type |-> type,
                            lines |-> file.lines,
                            rows |-> [i \in 1..(Len(NonBlank(file.lines)) - 1) |->
                                        NonBlank(file.lines)[i + 1].row],
                            i |-> 1, found |-> 0, recordsProcessed |-> 0, errors |-> << >>]]
    /\ UNCHANGED <<users, userSeq, competitors, pricingData, competitorSeq, pricingSeq, now>>

\* Mutant of NextRow: a row error ends the request.
NextRowAborting(s, processed, errors) ==
    IF Len(errors) > Len(local[s].errors)
    THEN Respond(s, [op |-> "bulkUpload", user |-> local[s].user, status |-> 500])
    ELSE /\ pc' = [pc EXCEPT ![s] = "bulkRow"]
         /\ local' = [local EXCEPT ![s].i = @ + 1, ![s].found = 0,
                                      ![s].recordsProcessed = processed,
                                      ![s].errors = errors]

\* The loop moves on from row i with these counts.
NextRow(s, processed, errors) ==
    /\ pc' = [pc EXCEPT ![s] = "bulkRow"]
    /\ local' = [local EXCEPT ![s].i = @ + 1, ![s].found = 0,
                                 ![s].recordsProcessed = processed, ![s].errors = errors]

\* One row of a competitors file: createCompetitor, or its error caught.
\* Row i of the loop is line i + 1 of the file (`Row ${i + 2}` from 0).
BulkCompetitorRow(s, cap) ==
    /\ pc[s] = "bulkRow"
    /\ local[s].type = "competitors"
    /\ local[s].i <= Len(local[s].rows)
    /\ LET v == CompetitorFromRow(local[s].rows[local[s].i])
       IN IF CompetitorInsertable(v, local[s].user)
          THEN /\ competitorSeq < cap
               /\ competitorSeq' = competitorSeq + 1
               /\ competitors' = competitors
                                   @@ (competitorSeq + 1 :> NewCompetitor(v, local[s].user))
               /\ NextRow(s, local[s].recordsProcessed + 1, local[s].errors)
          ELSE /\ UNCHANGED <<competitors, competitorSeq>>
               /\ NextRow(s, local[s].recordsProcessed,
                          Append(local[s].errors,
                                 [row |-> local[s].i + 1, msg |-> "insert failed",
                                  name |-> Undefined]))
    /\ UNCHANGED <<users, userSeq, pricingData, pricingSeq, now, uploads>>

\* One row of a pricing file, first statement: getAllCompetitors and find.
BulkPricingFind(s) ==
    /\ pc[s] = "bulkRow"
    /\ local[s].type = "pricing"
    /\ local[s].i <= Len(local[s].rows)
    /\ LET name == local[s].rows[local[s].i].competitor
       IN IF FirstMatches(competitors, name) = {}
          THEN NextRow(s, local[s].recordsProcessed,
                       Append(local[s].errors,
                              [row |-> local[s].i + 1, msg |-> "not found", name |-> name]))
          ELSE \E c \in FirstMatches(competitors, name) :
                  /\ pc' = [pc EXCEPT ![s] = "bulkInsert"]
                  /\ local' = [local EXCEPT ![s].found = c]
    /\ UNCHANGED <<users, userSeq, competitors, pricingData, competitorSeq, pricingSeq, now, uploads>>

\* One row of a pricing file, second statement: createPricingData, or its
\* error caught.
BulkPricingInsert(s, cap) ==
    /\ pc[s] = "bulkInsert"
    /\ LET v == [competitorId |-> local[s].found,
                 price |-> PriceFromRow(local[s].rows[local[s].i])]
       IN IF PricingInsertable(v)
          THEN /\ pricingSeq < cap
               /\ pricingSeq' = pricingSeq + 1
               /\ pricingData' = pricingData @@ (pricingSeq + 1 :> NewPricing(v))
               /\ NextRow(s, local[s].recordsProcessed + 1, local[s].errors)
          ELSE /\ UNCHANGED <<pricingData, pricingSeq>>
               /\ NextRow(s, local[s].recordsProcessed,
                          Append(local[s].errors,
                                 [row |-> local[s].i + 1, msg |-> "insert failed",
                                  name |-> Undefined]))
    /\ UNCHANGED <<users, userSeq, competitors, competitorSeq, now, uploads>>

\* After the last row: the file is unlinked and the result returned.
BulkEnd(s) ==
    /\ pc[s] = "bulkRow"
    /\ local[s].i > Len(local[s].rows)
    /\ uploads' = uploads - 1
    /\ Respond(s, [op |-> "bulkUpload", user |-> local[s].user, status |-> 200,
                   type |-> local[s].type, lines |-> local[s].lines,
                   recordsProcessed |-> local[s].recordsProcessed,
                   totalRows |-> Len(local[s].rows),
                   errors |-> SubSeq(local[s].errors, 1,
                                     Min(ErrorLimit, Len(local[s].errors)))])
    /\ UNCHANGED <<users, userSeq, competitors, pricingData, competitorSeq, pricingSeq, now>>


\* --------------------------------------------------------- /api/users
\* insertUserSchema.parse({ ...body, password }) succeeds: username, email
\* and name are strings, role is a member of the enum or absent.
ValidUserBody(b) ==
    /\ b.username # Undefined
    /\ b.email # Undefined
    /\ b.name # Undefined
    /\ b.role \in UserRoles \cup {Undefined}

\* Another row than id holds the username or the email (both are unique).
UserClash(id, b) ==
    \E x \in DOMAIN users \ {id} :
        \/ b.username # Undefined /\ users[x].username = b.username
        \/ b.email # Undefined /\ users[x].email = b.email

\* The row createUser inserts; role defaults to viewer.
NewUser(b, password) ==
    UserRow(b.username, b.email, IF b.role = Undefined THEN "viewer" ELSE b.role, password)

\* generateTemporaryPassword(): twelve characters drawn at random.
TempPasswords == {"Kq7mRt2pXw9z", "Zx4nBv8cLm3k"}

\* const { password, ...safeUser } = user
SafeUser(row) == [f \in DOMAIN row \ {"password"} |-> row[f]]

\* Mutant of ProvisionStatus: a failed email fails the request.
ProvisionStatusStrict(sent) == IF sent THEN 201 ELSE 500

\* The status after sendTemporaryPasswordEmail, which resolved (sent) or
\* threw into the catch that only logs.
ProvisionStatus(sent) == 201

\* POST /api/users in one step: the gate, the temporary password, the
\* schema, the hash, the INSERT and the email, sent inside its own
\* try/catch.  cap bounds the serial id.
CreateUser(s, u, b, cap) ==
    /\ pc[s] = "idle"
    /\ IF RequireAdmin(u) # 0
       THEN /\ Respond(s, [op |-> "createUser", user |-> u, status |-> 403])
            /\ UNCHANGED <<users, userSeq>>
       ELSE IF ~ValidUserBody(b)
       THEN /\ Respond(s, [op |-> "createUser", user |-> u, status |-> 400])
            /\ UNCHANGED <<users, userSeq>>
       ELSE IF UserClash(0, b)
       THEN /\ Respond(s, [op |-> "createUser", user |-> u, status |-> 500])
            /\ UNCHANGED <<users, userSeq>>
       ELSE /\ userSeq < cap
            /\ userSeq' = userSeq + 1
            /\ \E tempPassword \in TempPasswords, sent \in BOOLEAN :
                  /\ users' = users @@ (userSeq + 1 :> NewUser(b, Hash(tempPassword)))
                  /\ Respond(s, [op |-> "createUser", user |-> u,
                                 status |-> ProvisionStatus(sent), id |-> userSeq + 1,
                                 tempPassword |-> tempPassword, emailed |-> sent,
                                 body |-> SafeUser(NewUser(b, Hash(tempPassword)))])
    /\ UNCHANGED <<competitors, pricingData, competitorSeq, pricingSeq, now, uploads>>

\* Self-registration, a route of server/auth.ts: an account is created from
\* the body by a request that carries no session.  cap bounds the serial id.
Register(s, b, cap) ==
    /\ pc[s] = "idle"
    /\ IF ~ValidUserBody(b) \/ b.password = Undefined
       THEN /\ Respond(s, [op |-> "register", user |-> NoUser, status |-> 400])
            /\ UNCHANGED <<users, userSeq>>
       ELSE IF UserClash(0, b)
       THEN /\ Respond(s, [op |-> "register", user |-> NoUser, status |-> 400])
            /\ UNCHANGED <<users, userSeq>>
       ELSE /\ userSeq < cap
            /\ userSeq' = userSeq + 1
            /\ users' = users @@ (userSeq + 1 :> NewUser(b, Hash(b.password)))
            /\ Respond(s, [op |-> "register", user |-> NoUser, status |-> 201,
                           id |-> userSeq + 1])
    /\ UNCHANGED <<competitors, pricingData, competitorSeq, pricingSeq, now, uploads>>

\* insertUserSchema.partial().omit({ password: true }).parse(body) succeeds.
ValidPartialUserBody(b) == b.role \in UserRoles \cup {Undefined}

\* The UPDATE of updateUser fails: there is nothing to set, or the row
\* would take a username or an email another row holds.
UserUpdateFails(id, b) ==
    \/ b.username = Undefined /\ b.email = Undefined /\ b.name = Undefined
         /\ b.role = Undefined
    \/ id \in DOMAIN users /\ UserClash(id, b)

\* Mutant of OmitPassword: the password stays in the updates.
KeepPassword(b) == b

\* .omit({ password: true }): the parsed body has no password key.
OmitPassword(b) == [b EXCEPT !.password = Undefined]

\* The row after .set(updates): every column the updates name is set.
UpdatedUser(r, b) ==
    UserRow(IF b.username = Undefined THEN r.username ELSE b.username,
            IF b.email = Undefined THEN r.email ELSE b.email,
            IF b.role = Undefined THEN r.role ELSE b.role,
            IF b.password = Undefined THEN r.password ELSE Plain(b.password))

\* PUT /api/users/:id in one step.
UpdateUser(s, u, id, b) ==
    /\ pc[s] = "idle"
    /\ IF RequireAdmin(u) # 0
       THEN /\ Respond(s, [op |-> "updateUser", user |-> u, id |-> id, status |-> 403])
            /\ UNCHANGED users
       ELSE IF ~ValidPartialUserBody(b)
       THEN /\ Respond(s, [op |-> "updateUser", user |-> u, id |-> id, status |-> 400])
            /\ UNCHANGED users
       ELSE IF UserUpdateFails(id, b)
       THEN /\ Respond(s, [op |-> "updateUser", user |-> u, id |-> id, status |-> 500])
            /\ UNCHANGED users
       ELSE IF id \notin DOMAIN users
       THEN /\ Respond(s, [op |-> "updateUser", user |-> u, id |-> id, status |-> 404])
            /\ UNCHANGED users
       ELSE /\ users' = [users EXCEPT ![id] = UpdatedUser(@, OmitPassword(b))]
            /\ Respond(s, [op |-> "updateUser", user |-> u, id |-> id, status |-> 200,
                           req |-> b,
                           body |-> SafeUser(UpdatedUser(users[id], OmitPassword(b)))])
    /\ UNCHANGED <<userSeq, competitors, pricingData, competitorSeq, pricingSeq, now, uploads>>

\* GET /api/users: every row without its password (the model keeps the
\* rows by id).
GetUsers(s, u) ==
    /\ pc[s] = "idle"
    /\ IF RequireAdmin(u) # 0
       THEN Respond(s, [op |-> "getUsers", user |-> u, status |-> 403])
       ELSE Respond(s, [op |-> "getUsers", user |-> u, status |-> 200,
                       body |-> [id \in DOMAIN users |-> SafeUser(users[id])]])
    /\ UNCHANGED <<users, userSeq, competitors, pricingData, competitorSeq, pricingSeq, now,
                   uploads>>

\* Mutant of IsOwnAccount: no id is the session's own.
IsOwnAccountNever(id, u) == FALSE

\* id === req.user!.id
IsOwnAccount(id, u) == id = u

\* Mutant of CreatedBy: created_by is no foreign key.
CreatedByNone(id) == {}

\* The competitors that reference user id through created_by.
CreatedBy(id) == {c \in DOMAIN competitors : competitors[c].createdBy = id}

\* DELETE /api/users/:id in one step.  competitors.created_by references
\* users.id without ON DELETE, so the DELETE fails while a competitor still
\* references the user; a DELETE that matches no row succeeds.
DeleteUser(s, u, id) ==
    /\ pc[s] = "idle"
    /\ IF RequireAdmin(u) # 0
       THEN /\ Respond(s, [op |-> "deleteUser", user |-> u, id |-> id, status |-> 403])
            /\ UNCHANGED users
       ELSE IF IsOwnAccount(id, u)
       THEN /\ Respond(s, [op |-> "deleteUser", user |-> u, id |-> id, status |-> 400])
            /\ UNCHANGED users
       ELSE IF CreatedBy(id) # {}
       THEN /\ Respond(s, [op |-> "deleteUser", user |-> u, id |-> id, status |-> 500])
            /\ UNCHANGED users
       ELSE /\ users' = Without(users, id)
            /\ Respond(s, [op |-> "deleteUser", user |-> u, id |-> id, status |-> 204])
    /\ UNCHANGED <<userSeq, competitors, pricingData, competitorSeq, pricingSeq, now, uploads>>


\* ---------------------------------------------------------------- clock
Tick ==
    /\ now < MaxTime
    /\ now' = now + 1
    /\ UNCHANGED <<users, userSeq, competitors, pricingData, competitorSeq, pricingSeq, uploads, pc, local>>

\* ------------------------------------------------------------- parseInt
\* A query parameter: absent, or its characters.
NoQuery == [present |-> FALSE, chars |-> << >>]
Query(cs) == [present |-> TRUE, chars |-> cs]

DigitChars == {"0", "1", "2", "3", "4", "5", "6", "7", "8", "9"}
DigitValue(c) ==
    CASE c = "0" -> 0 [] c = "1" -> 1 [] c = "2" -> 2 [] c = "3" -> 3 [] c = "4" -> 4
      [] c = "5" -> 5 [] c = "6" -> 6 [] c = "7" -> 7 [] c = "8" -> 8 [] OTHER -> 9

RECURSIVE DigitPrefixLen(_)
\* The length of the longest prefix of cs made of digits.
DigitPrefixLen(cs) ==
    IF cs = << >> \/ Head(cs) \notin DigitChars THEN 0
    ELSE 1 + DigitPrefixLen(Tail(cs))

RECURSIVE DigitsValue(_)
\* The number a sequence of digits denotes in base 10.
DigitsValue(ds) ==
    IF ds = << >> THEN 0
    ELSE 10 * DigitsValue(SubSeq(ds, 1, Len(ds) - 1)) + DigitValue(ds[Len(ds)])

\* parseInt(q) in base 10: an optional sign, then the longest run of digits;
\* NaN when there is no digit there, or no parameter at all.  (The inputs
\* of the model carry no white space and no 0x prefix.)
ParseInt(q) ==
    IF ~q.present THEN JsNaN
    ELSE LET signed == q.chars # << >> /\ Head(q.chars) \in {"-", "+"}
             rest == IF signed THEN Tail(q.chars) ELSE q.chars
             n == DigitPrefixLen(rest)
             v == DigitsValue(SubSeq(rest, 1, n))
         IN IF n = 0 THEN JsNaN
            ELSE IF signed /\ Head(q.chars) = "-" THEN Num(0 - v)
            ELSE Num(v)

\* --------------------------------------------- getRecentPricingTrends
\* The window of GET /api/dashboard/pricing-trends without a usable days.
DefaultDays == 180

\* DATE(recorded_at)
DateOf(ts) == ts \div TicksPerDay

\* Mutant of InWindow: no WHERE clause.
InWindowUnfiltered(P, cutoff) == DOMAIN P

\* WHERE recorded_at >= cutoffDate
InWindow(P, cutoff) == {k \in DOMAIN P : P[k].recordedAt >= cutoff}

\* The rows of one GROUP BY DATE(recorded_at) group.
GroupOf(P, cutoff, date) == {k \in InWindow(P, cutoff) : DateOf(P[k].recordedAt) = date}

\* AVG(price)::numeric of one group, at NumericScale.
SqlAvgOf(P, G) ==
    RoundDiv(SumFn([k \in G |-> P[k].price]) * Pow10(NumericScale - 2), Cardinality(G))

RECURSIVE SortAsc(_)
\* ORDER BY over a set of dates: ascending.
SortAsc(S) ==
    IF S = {} THEN << >>
    ELSE LET m == CHOOSE x \in S : \A y \in S : x <= y
         IN <<m>> \o SortAsc(S \ {m})

\* The rows getRecentPricingTrends selects.
SqlPricingTrends(P, cutoff) ==
    LET dates == SortAsc({DateOf(P[k].recordedAt) : k \in InWindow(P, cutoff)})
    IN [i \in 1..Len(dates) |->
          [date |-> dates[i], avgPrice |-> SqlAvgOf(P, GroupOf(P, cutoff, dates[i]))]]

\* cutoffDate.setDate(cutoffDate.getDate() - days): the same time of day,
\* days calendar days earlier.
CutoffDate(days) == now - days * TicksPerDay

\* ------------------------------------- GET /api/dashboard/pricing-trends
\* One step: requireAuth, parseInt(req.query.days) || 180 and the query.
PricingTrends(s, u, q) ==
    /\ pc[s] = "idle"
    /\ IF RequireAuth(u) # 0
       THEN Respond(s, [op |-> "pricingTrends", status |-> 401])
       ELSE LET days == OrDefault(ParseInt(q), DefaultDays)
            IN Respond(s, [op |-> "pricingTrends", status |-> 200, query |-> q,
                           days |-> days, cutoff |-> CutoffDate(days),
                           body |-> SqlPricingTrends(pricingData, CutoffDate(days))])
    /\ UNCHANGED <<users, userSeq, competitors, pricingData, competitorSeq, pricingSeq, now, uploads>>

\* ------------------------------------------------------ specifications
\* The slots of the specifications that run one request at a time.
SeqSlots == {1}

\* The competitor bodies of SpecMetrics: two price floors with two shares
\* (two of the larger exceed 100 together), each with the three trends.
MetricBodies ==
    {[name |-> "Acme",
      category |-> "Retail",
      priceRangeMin |-> Dec(p[1]),
      priceRangeMax |-> Dec(1001),
      marketShare |-> Dec(p[2]),
      trendStatus |-> st] : p \in {<<0, 2550>>, <<500, 6000>>}, st \in TrendStatuses}

\* The sessions of SpecMetrics: none, the admin and the viewer.
MetricSessions == {NoUser, 1, 3}

\* Competitor creation and deletion and the dashboard metrics, one request
\* at a time.
NextMetrics ==
    \E s \in SeqSlots :
        \/ \E u \in MetricSessions, b \in MetricBodies : CreateCompetitor(s, u, b, MaxCompetitors)
        \/ \E u \in MetricSessions, id \in 1..MaxCompetitors : DeleteCompetitorPricing(s, u, id)
        \/ DeleteCompetitorRow(s)
        \/ \E u \in MetricSessions : MetricsCount(s, u)
        \/ MetricsAvg(s)
        \/ MetricsShare(s)
        \/ MetricsTrend(s)
        \/ Finish(s)

SpecMetrics == Init /\ [][NextMetrics]_vars

\* The competitor every seeded row is created from.
SeedBody(name) ==
    [name |-> name, category |-> "Retail", priceRangeMin |-> Dec(0),
     priceRangeMax |-> Dec(1001), marketShare |-> Dec(2550), trendStatus |-> "stable"]

\* The analyst has created two competitors at time 0; no request in flight.
InitTrends ==
    /\ users = SeededUsers
    /\ userSeq = 3
    /\ now = 0
    /\ competitors = (1 :> NewCompetitor(SeedBody("Acme"), 2))
                       @@ (2 :> NewCompetitor(SeedBody("Bolt"), 2))
    /\ pricingData = << >>
    /\ competitorSeq = 2
    /\ pricingSeq = 0
    /\ uploads = 0
    /\ pc = [s \in Slots |-> "idle"]
    /\ local = [s \in Slots |-> Idle]

\* The sessions of SpecTrends: none and the analyst.
TrendSessions == {NoUser, 2}

\* The pricing bodies of SpecTrends: one price for either competitor.
TrendPricingBodies ==
    {[competitorId |-> 1, price |-> Dec(1000)],
     [competitorId |-> 2, price |-> Dec(2005)]}

\* The days parameters of SpecTrends: absent, or up to MaxQueryLen
\* characters: a sign, two digits and a letter.
QueryChars == {"-", "0", "1", "a"}
Queries == {NoQuery} \cup {Query(cs) : cs \in UNION {[1..n -> QueryChars] : n \in 0..MaxQueryLen}}

\* Time passes while no request is in flight.
TickBetweenRequests == (\A s \in Slots : pc[s] = "idle") /\ Tick

\* Pricing creation, the trend series and, between two requests, the clock;
\* one request at a time.
NextTrends ==
    \/ TickBetweenRequests
    \/ \E s \in SeqSlots :
        \/ \E u \in TrendSessions, b \in TrendPricingBodies : CreatePricing(s, u, b, MaxPricing)
        \/ \E u \in TrendSessions, q \in Queries : PricingTrends(s, u, q)
        \/ Finish(s)

SpecTrends == InitTrends /\ [][NextTrends]_vars


\* The session of SpecConc: the admin, whom every gate admits.
ConcSessions == {1}

\* The pricing bodies of SpecConc: one price for either competitor id.
ConcPricingBodies == [competitorId : 1..FewCompetitors, price : {Dec(1000)}]

\* The file of SpecConc: one pricing row that names the seeded competitor
\* in another case.
ConcFiles == {File(<<HeaderLine, PricingLine("acme", Dec(1000))>>)}

\* Competitor creation and deletion, interactive pricing creation and bulk
\* pricing ingestion by requests that interleave statement by statement.
NextConc ==
    \E s \in Slots :
        \/ \E u \in ConcSessions : CreateCompetitor(s, u, SeedBody("Acme"), FewCompetitors)
        \/ \E u \in ConcSessions, id \in 1..FewCompetitors : DeleteCompetitorPricing(s, u, id)
        \/ DeleteCompetitorRow(s)
        \/ \E u \in ConcSessions, b \in ConcPricingBodies : CreatePricing(s, u, b, FewPricing)
        \/ \E u \in ConcSessions, f \in ConcFiles : BulkStart(s, u, f, "pricing", MaxUploads)
        \/ BulkPricingFind(s)
        \/ BulkPricingInsert(s, FewPricing)
        \/ BulkEnd(s)
        \/ Finish(s)

SpecConc == Init /\ [][NextConc]_vars


\* The competitor bodies of Spec: a well-formed one; one whose floor exceeds
\* its ceiling and whose share exceeds 100; one with a negative floor; one
\* whose trend is no member of the enum; one whose share is no numeral.
Bodies ==
    {SeedBody("Acme"),
     [SeedBody("Bolt") EXCEPT !.priceRangeMin = Dec(5000), !.marketShare = Dec(15000),
                              !.trendStatus = "growing"],
     [SeedBody("Bolt") EXCEPT !.priceRangeMin = Dec(0 - 500)],
     [SeedBody("Bolt") EXCEPT !.trendStatus = "rising"],
     [SeedBody("Bolt") EXCEPT !.marketShare = NotNumeral]}

\* A partial body with no field.
NoFields ==
    [name |-> Undefined, category |-> Undefined, priceRangeMin |-> NoText,
     priceRangeMax |-> NoText, marketShare |-> NoText, trendStatus |-> Undefined]

\* The partial bodies of Spec: a trend alone, a ceiling alone, a share that
\* overflows decimal(5, 2), a trend outside the enum.
PartialBodies ==
    {[NoFields EXCEPT !.trendStatus = "declining"],
     [NoFields EXCEPT !.priceRangeMax = Dec(100)],
     [NoFields EXCEPT !.marketShare = Dec(100000)],
     [NoFields EXCEPT !.trendStatus = "rising"]}

\* The pricing bodies of Spec: a price for either competitor id, and a
\* body without a price.
PricingBodies ==
    [competitorId : 1..FewCompetitors, price : {Dec(1000)}]
      \cup {[competitorId |-> 1, price |-> NoText]}

\* The files of Spec: a competitors file of two rows, the second with a
\* floor above its ceiling; a pricing file of two rows, the second naming
\* no competitor; a file with a header alone; no file.
Files ==
    {File(<<HeaderLine, CompetitorLine("Acme", Dec(0), Dec(1001), Dec(2550), "stable"),
            BlankLine, CompetitorLine("Bolt", Dec(9000), Dec(100), EmptyText, "")>>),
     File(<<HeaderLine, PricingLine("ACME", Dec(1000)), PricingLine("Zed", NotNumeral)>>),
     File(<<HeaderLine, BlankLine>>),
     NoFile}

\* The type fields of Spec.
UploadTypes == {"competitors", "pricing", "market_data"}

\* The sessions of Spec: no session, the seeded admin, the seeded viewer.
WriteSessions == {NoUser, 1, 3}

\* Every route that writes competitors or pricing_data, one request at a
\* time.
Next ==
    \E s \in SeqSlots :
        \/ \E u \in WriteSessions, b \in Bodies : CreateCompetitor(s, u, b, FewCompetitors)
        \/ \E u \in WriteSessions, id \in 1..FewCompetitors, b \in PartialBodies :
              UpdateCompetitor(s, u, id, b)
        \/ \E u \in WriteSessions, id \in 1..FewCompetitors : DeleteCompetitorPricing(s, u, id)
        \/ DeleteCompetitorRow(s)
        \/ \E u \in WriteSessions, b \in PricingBodies : CreatePricing(s, u, b, FewPricing)
        \/ \E u \in WriteSessions, f \in Files, ty \in UploadTypes :
              BulkStart(s, u, f, ty, MaxUploads)
        \/ BulkCompetitorRow(s, FewCompetitors)
        \/ BulkPricingFind(s)
        \/ BulkPricingInsert(s, FewPricing)
        \/ BulkEnd(s)
        \/ Finish(s)

Spec == Init /\ [][Next]_vars


\* A well-formed data line of a competitors file.
GoodLine(name) == CompetitorLine(name, Dec(0), Dec(1001), Dec(2550), "stable")

\* Unmatched pricing lines, as many as given: more than errors.slice keeps.
UnmatchedLines == [i \in 1..(ErrorLimit + 1) |-> PricingLine("Zed", Dec(500))]

\* The files of SpecBulk.  Competitors files: three rows, the second with an
\* empty name cell; two rows, the first with a share that is no numeral and
\* a blank line between them; one row under a header without a name
\* column.  A pricing file: the unmatched lines, then one row
\* that names Acme in another case.  A header alone with a blank
\* line, an empty file, and no file.
BulkFiles ==
    {File(<<HeaderLine, GoodLine("Acme"), GoodLine(""), GoodLine("Bolt")>>),
     File(<<HeaderLine, CompetitorLine("Bolt", Dec(0), Dec(1001), NotNumeral, "stable"),
            BlankLine, GoodLine("Acme")>>),
     File(<<HeaderLine, GoodLine(Undefined)>>),
     File(<<HeaderLine>> \o UnmatchedLines \o <<PricingLine("ACME", Dec(1000))>>),
     File(<<HeaderLine, BlankLine>>),
     File(<< >>),
     NoFile}

\* The sessions of SpecBulk: the seeded analyst and the seeded viewer.
BulkSessions == {2, 3}

\* POST /api/bulk-upload, one request at a time.
NextBulk ==
    \E s \in SeqSlots :
        \/ \E u \in BulkSessions, f \in BulkFiles, ty \in UploadTypes :
              BulkStart(s, u, f, ty, MaxUploads)
        \/ BulkCompetitorRow(s, MaxCompetitors)
        \/ BulkPricingFind(s)
        \/ BulkPricingInsert(s, MaxPricing)
        \/ BulkEnd(s)
        \/ Finish(s)

SpecBulk == Init /\ [][NextBulk]_vars

\* Session cookies: none, or one of any user id there may ever be.
AllSessions == {NoUser} \cup (1..MaxUsers)

\* A user body, with the role given or absent.
UserBody(username, role) ==
    [username |-> username, email |-> username, name |-> username, role |-> role,
     password |-> Undefined]

\* A partial user body with no field.
NoUserFields ==
    [username |-> Undefined, email |-> Undefined, name |-> Undefined, role |-> Undefined,
     password |-> Undefined]

\* The user bodies of SpecPasswords: a new analyst, the username of a seeded
\* account, a role outside the enum.
UserBodies ==
    {UserBody("dana", "analyst"), UserBody("admin", "viewer"), UserBody("fred", "root")}

\* The partial user bodies of the user routes: a promotion, a demotion that also
\* carries a password, and a body with no field.
PartialUserBodies ==
    {[NoUserFields EXCEPT !.role = "admin"],
     [NoUserFields EXCEPT !.role = "viewer", !.password = "chosen"],
     NoUserFields}

\* The update and the deletion of users from every session on every id, one
\* request at a time, and the creation of competitors, which makes accounts
\* referenced.
NextUsers ==
    \E s \in SeqSlots, u \in AllSessions :
        \/ \E id \in 1..MaxUsers, b \in PartialUserBodies : UpdateUser(s, u, id, b)
        \/ \E id \in 1..MaxUsers : DeleteUser(s, u, id)
        \/ CreateCompetitor(s, u, SeedBody("Acme"), GateRows)
        \/ Finish(s)

SpecUsers == Init /\ [][NextUsers]_vars

\* The sessions of SpecPasswords: the seeded admin and the seeded viewer.
PasswordSessions == {1, 3}

\* The listing, the creation and the update of users, one request at a
\* time.
NextPasswords ==
    \E s \in SeqSlots, u \in PasswordSessions :
        \/ GetUsers(s, u)
        \/ \E b \in UserBodies : CreateUser(s, u, b, MaxUsers)
        \/ \E id \in 1..MaxUsers, b \in PartialUserBodies : UpdateUser(s, u, id, b)
        \/ Finish(s)

SpecPasswords == Init /\ [][NextPasswords]_vars

\* The file of SpecGates: one well-formed competitors row.
GateFiles == {File(<<HeaderLine, GoodLine("Acme")>>)}

\* Every route that writes the Data Store, one request at a time, from the
\* sessions of the seeded accounts and from no session.  The viewer account
\* is promoted, demoted and deleted; an analyst account is created; a
\* visitor registers.
NextGates ==
    \E s \in SeqSlots, u \in Sessions :
        \/ CreateCompetitor(s, u, SeedBody("Acme"), GateRows)
        \/ UpdateCompetitor(s, u, 1, [NoFields EXCEPT !.trendStatus = "declining"])
        \/ DeleteCompetitorPricing(s, u, 1)
        \/ DeleteCompetitorRow(s)
        \/ CreatePricing(s, u, [competitorId |-> 1, price |-> Dec(1000)], GateRows)
        \/ \E f \in GateFiles : BulkStart(s, u, f, "competitors", MaxUploads)
        \/ BulkCompetitorRow(s, GateRows)
        \/ BulkEnd(s)
        \/ CreateUser(s, u, UserBody("dana", "analyst"), MaxUsers)
        \/ \E b \in PartialUserBodies : UpdateUser(s, u, 3, b)
        \/ DeleteUser(s, u, 3)
        \/ Register(s, [UserBody("gina", Undefined) EXCEPT !.password = "chosen"], MaxUsers)
        \/ Finish(s)

SpecGates == Init /\ [][NextGates]_vars

\* The file of SpecDup: two well-formed competitors rows.
DupFile == File(<<HeaderLine, GoodLine("Acme"), GoodLine("Bolt")>>)

\* The analyst creates a competitor named Acme and uploads the same
\* competitors file, again and again, in requests that interleave.
NextDup ==
    \E s \in Slots :
        \/ CreateCompetitor(s, 2, SeedBody("Acme"), MaxCompetitors)
        \/ BulkStart(s, 2, DupFile, "competitors", MaxUploads)
        \/ BulkCompetitorRow(s, MaxCompetitors)
        \/ BulkEnd(s)
        \/ Finish(s)

SpecDup == Init /\ [][NextDup]_vars

\* ---------------------------------------------------------------- claims
RECURSIVE TotalUpTo(_, _)
\* f[1] + ... + f[n], an absent argument counting 0.
TotalUpTo(f, n) ==
    IF n = 0 THEN 0
    ELSE (IF n \in DOMAIN f THEN f[n] ELSE 0) + TotalUpTo(f, n - 1)

\* Slot s holds the metrics record getDashboardMetrics has just returned.
MetricsDone(s) == pc[s] = "done" /\ local[s].op = "metrics" /\ local[s].status = 200

Growing == {i \in DOMAIN competitors : competitors[i].trendStatus = "growing"}
Declining == {i \in DOMAIN competitors : competitors[i].trendStatus = "declining"}

\* C1: the returned trendScore lies in [0, 10]; it is 5.0 over no
\* competitors, 10.0 when every competitor is growing and 0.0 when every
\* competitor is declining (trendScore is in tenths).
C1_TrendScoreRange ==
    \A s \in Slots : MetricsDone(s) =>
        LET sc == local[s].body.trendScore
            ids == DOMAIN competitors
        IN /\ sc \in 0..100
           /\ (ids = {} => sc = 50)
           /\ (ids # {} /\ Growing = ids => sc = 100)
           /\ (ids # {} /\ Declining = ids => sc = 0)

\* C1 witness: metrics returned over two or more rows, all declining.
C1_Witness ==
    \E s \in Slots :
        /\ MetricsDone(s)
        /\ Cardinality(DOMAIN competitors) >= 2
        /\ Declining = DOMAIN competitors
        /\ local[s].body.trendScore = 0

\* C2: over t > 0 rows, g growing and d declining, the returned trendScore
\* is clamp(((g - d) / t) * 5 + 5, 0, 10) to one decimal (within half a
\* tenth of it); g = d gives 5.0.
C2_TrendScoreFormula ==
    \A s \in Slots : MetricsDone(s) /\ DOMAIN competitors # {} =>
        LET sc == local[s].body.trendScore
            t == Cardinality(DOMAIN competitors)
            g == Cardinality(Growing)
            d == Cardinality(Declining)
            \* t times the clamped score
            n == Max(0, Min(10 * t, (g - d) * 5 + 5 * t))
        IN /\ 2 * Abs(sc * t - 10 * n) <= t
           /\ (g = d => sc = 50)

\* C2 witness: one growing row diluted by two stable ones scores 6.7.
C2_Witness ==
    \E s \in Slots :
        /\ MetricsDone(s)
        /\ Cardinality(DOMAIN competitors) = 3
        /\ Cardinality(Growing) = 1
        /\ Declining = {}
        /\ local[s].body.trendScore = 67

\* C3: the returned avgPrice is the mean over all rows of
\* (priceRangeMin + priceRangeMax) / 2, to the last digit numeric division
\* keeps, and 0 over no rows (avgPrice is in 10^-NumericScale).
C3_AvgPriceIsMean ==
    \A s \in Slots : MetricsDone(s) =>
        LET a == local[s].body.avgPrice
            t == Cardinality(DOMAIN competitors)
            sum == TotalUpTo([i \in DOMAIN competitors |->
                               competitors[i].priceRangeMin + competitors[i].priceRangeMax],
                             competitorSeq)
        IN IF t = 0 THEN a = 0
           ELSE Abs(a * 2 * t - sum * Pow10(NumericScale - 2)) <= t

\* C3 witness: three rows whose midpoints differ and whose mean does not
\* terminate.
C3_Witness ==
    \E s \in Slots :
        /\ MetricsDone(s)
        /\ Cardinality(DOMAIN competitors) = 3
        /\ \E i, j \in DOMAIN competitors :
              competitors[i].priceRangeMin # competitors[j].priceRangeMin
        /\ local[s].body.avgPrice * 6
             # TotalUpTo([i \in DOMAIN competitors |->
                            competitors[i].priceRangeMin + competitors[i].priceRangeMax],
                         competitorSeq) * Pow10(NumericScale - 2)

\* C4: the returned totalCompetitors is the number of rows and marketShare
\* the sum of the rows' market shares, uncapped; both 0 over no rows.
C4_CountAndShare ==
    \A s \in Slots : MetricsDone(s) =>
        LET b == local[s].body
        IN /\ b.totalCompetitors = Cardinality(DOMAIN competitors)
           /\ b.marketShare = TotalUpTo([i \in DOMAIN competitors |->
                                           competitors[i].marketShare], competitorSeq)
           /\ (DOMAIN competitors = {} => b.totalCompetitors = 0 /\ b.marketShare = 0)

\* C4 witness: three rows whose shares add up to more than 100.
C4_Witness ==
    \E s \in Slots :
        /\ MetricsDone(s)
        /\ local[s].body.totalCompetitors = 3
        /\ local[s].body.marketShare > 10000

\* Slot s holds the series getRecentPricingTrends has just returned.
TrendsDone(s) == pc[s] = "done" /\ local[s].op = "pricingTrends" /\ local[s].status = 200

\* The pricing rows recorded on calendar day date.
RecordedOn(date) ==
    {k \in DOMAIN pricingData :
        /\ pricingData[k].recordedAt >= date * TicksPerDay
        /\ pricingData[k].recordedAt < (date + 1) * TicksPerDay}

\* C5: the returned series is strictly ascending by date, and holds an
\* entry for a day only if a pricing row recorded on that day lies at or
\* after the cutoff.
C5_SeriesSortedAndSparse ==
    \A s \in Slots : TrendsDone(s) =>
        LET series == local[s].body
        IN /\ \A i, j \in 1..Len(series) : i < j => series[i].date < series[j].date
           /\ \A i \in 1..Len(series) :
                 \E k \in RecordedOn(series[i].date) :
                    pricingData[k].recordedAt >= local[s].cutoff

\* C5 witness: a series of two days, although rows older than the cutoff
\* exist on a third.
C5_Witness ==
    \E s \in Slots :
        /\ TrendsDone(s)
        /\ Len(local[s].body) = 2
        /\ \E k \in DOMAIN pricingData :
              pricingData[k].recordedAt < local[s].cutoff
              /\ \A i \in 1..2 : k \notin RecordedOn(local[s].body[i].date)

\* a is the mean of the prices of the rows G, to the last digit numeric
\* division keeps.
IsMeanOf(a, G) ==
    Abs(a * Cardinality(G)
        - TotalUpTo([k \in G |-> pricingData[k].price], pricingSeq) * Pow10(NumericScale - 2)) * 2
      <= Cardinality(G)

\* C6 as claimed: every entry's avgPrice is the mean of all prices recorded
\* on its calendar day, the day of the cutoff included.
C6_WholeDayMean ==
    \A s \in Slots : TrendsDone(s) =>
        \A i \in 1..Len(local[s].body) :
            IsMeanOf(local[s].body[i].avgPrice, RecordedOn(local[s].body[i].date))

\* C7 as claimed: the window handed to getRecentPricingTrends is positive:
\* the value of days when it is a positive numeral, 180 when days is
\* absent, empty, zero or a negative numeral.
C7_WindowPositive ==
    \A s \in Slots : TrendsDone(s) =>
        LET q == local[s].query
            cs == q.chars
            numeral == q.present /\ cs # << >> /\ \A i \in 1..Len(cs) : cs[i] \in DigitChars
            negative == /\ q.present /\ Len(cs) >= 2 /\ cs[1] = "-"
                        /\ \A i \in 2..Len(cs) : cs[i] \in DigitChars
        IN /\ local[s].days > 0
           /\ local[s].cutoff <= now
           /\ (numeral /\ DigitsValue(cs) > 0 => local[s].days = DigitsValue(cs))
           /\ (~q.present \/ cs = << >> \/ negative \/ (numeral /\ DigitsValue(cs) = 0)
                 => local[s].days = DefaultDays)

\* Slot s has just answered 204 to DELETE /api/competitors/:id.
DeleteDone(s) == pc[s] = "done" /\ local[s].op = "deleteCompetitor" /\ local[s].status = 204

\* The pricing rows of competitors other than id are the same in P and Q.
SameOthers(P, Q, id) ==
    /\ DOMAIN P \ PricingOf(P, id) = DOMAIN Q \ PricingOf(Q, id)
    /\ \A k \in DOMAIN P \ PricingOf(P, id) : P[k] = Q[k]

\* C8: the step that completes deleteCompetitor(id) successfully leaves no
\* competitor row with that id and no pricing row that references it, and
\* neither statement of deleteCompetitor touches a pricing row of another
\* competitor.
C8_DeleteRemovesPricing ==
    [][\A s \in Slots :
          /\ (pc[s] = "idle" /\ pc'[s] = "deleteRow"
                => SameOthers(pricingData, pricingData', local'[s].id))
          /\ (pc[s] = "deleteRow" /\ DeleteDone(s)'
                => /\ local[s].id \notin DOMAIN competitors'
                   /\ PricingOf(pricingData', local[s].id) = {}
                   /\ SameOthers(pricingData, pricingData', local[s].id))]_vars

\* C8 witness: a delete has answered 204 for a competitor that existed,
\* pricing rows have been removed and a pricing row of another competitor
\* is still there.
C8_Witness ==
    \E s \in Slots :
        /\ DeleteDone(s)
        /\ local[s].id <= competitorSeq
        /\ local[s].id \notin DOMAIN competitors
        /\ pricingData # << >>
        /\ Cardinality(DOMAIN pricingData) < pricingSeq

\* C9: every pricing row references a competitor row that exists.
C9_PricingReferencesCompetitor ==
    \A k \in DOMAIN pricingData : pricingData[k].competitorId \in DOMAIN competitors

\* C9 witness: a pricing row exists after the second statement of a delete
\* was refused because a concurrent request had inserted a pricing row for
\* the competitor.
C9_Witness ==
    \E s \in Slots :
        /\ pc[s] = "done"
        /\ local[s].op = "deleteCompetitor"
        /\ local[s].status = 500
        /\ PricingOf(pricingData, local[s].id) # {}

\* C10 as claimed: every competitor row has a non-negative price floor and
\* ceiling with floor <= ceiling, a market share within 0..100 and a trend
\* status of the enum.
C10_RowBounds ==
    \A c \in DOMAIN competitors :
        /\ competitors[c].priceRangeMin >= 0
        /\ competitors[c].priceRangeMax >= 0
        /\ competitors[c].priceRangeMin <= competitors[c].priceRangeMax
        /\ competitors[c].marketShare >= 0
        /\ competitors[c].marketShare <= 10000
        /\ competitors[c].trendStatus \in TrendStatuses

\* Slot s has taken the step of the row loop over row i of a competitors
\* file.
CompetitorRowStep(s) ==
    /\ pc[s] = "bulkRow"
    /\ local[s].type = "competitors"
    /\ pc'[s] = "bulkRow"
    /\ local'[s].i = local[s].i + 1

\* C11 as claimed: in a competitors bulk upload a data row whose name is
\* missing or empty creates no competitor and adds exactly one error, and a
\* well-formed row of the same file is created.
C11_NamelessRowRejected ==
    [][\A s \in Slots :
          CompetitorRowStep(s) =>
              LET row == local[s].rows[local[s].i]
              IN IF row.name \in {"", Undefined}
                 THEN /\ competitors' = competitors
                      /\ Len(local'[s].errors) = Len(local[s].errors) + 1
                 ELSE CompetitorInsertable(CompetitorFromRow(row), local[s].user)
                        => /\ Cardinality(DOMAIN competitors')
                                = Cardinality(DOMAIN competitors) + 1
                           /\ local'[s].errors = local[s].errors]_vars

\* Slot s is inside the row loop of a bulk upload.
InRowLoop(s) == pc[s] \in {"bulkRow", "bulkInsert"}

\* A bulk upload of slot s has returned its result.
BulkDone(s) == pc[s] = "done" /\ local[s].op = "bulkUpload" /\ local[s].status = 200

\* C12: a failure while processing one data row never aborts the batch.  A
\* step of the row loop that records an error moves on to the next row with
\* the rows and the count of created records as they were, and the request
\* leaves the loop only after the last row, with a result record (200).
C12_RowFailureNeverAborts ==
    [][\A s \in Slots :
          (InRowLoop(s) /\ (pc'[s] # pc[s] \/ local'[s] # local[s])) =>
              /\ pc'[s] = "done" =>
                    /\ local'[s].status = 200
                    /\ local[s].i > Len(local[s].rows)
              /\ pc'[s] # "done" =>
                    /\ InRowLoop(s)'
                    /\ local'[s].rows = local[s].rows
                    /\ Len(local'[s].errors) > Len(local[s].errors) =>
                          /\ pc'[s] = "bulkRow"
                          /\ local'[s].i = local[s].i + 1
                          /\ Len(local'[s].errors) = Len(local[s].errors) + 1
                          /\ local'[s].recordsProcessed = local[s].recordsProcessed]_vars

\* A result whose first data row (line 2) failed and a later row was created.
C12_Witness ==
    \E s \in Slots :
        /\ BulkDone(s)
        /\ local[s].errors # << >>
        /\ local[s].errors[1].row = 2
        /\ local[s].recordsProcessed >= 1

\* The non-blank lines of a file below its header.
DataLineCount(lines) == Cardinality({k \in 1..Len(lines) : ~lines[k].blank}) - 1

\* The records in the Data Store.
StoredRecords == Cardinality(DOMAIN competitors) + Cardinality(DOMAIN pricingData)

\* The first n elements of a sequence, all of it when it is shorter.
FirstOf(n, seq) == [k \in 1..Min(n, Len(seq)) |-> seq[k]]

\* C13: for every bulk upload that returns a result, totalRows is the number
\* of non-blank data lines, recordsProcessed the number of records the
\* request created, and errors the first collected errors, at most 10, in
\* ascending row order.  Step by step: the loop starts from zero over the
\* data lines; each step counts one record exactly when one is stored and
\* appends errors with ascending rows; the result reports these counts.
C13_ResultCounts ==
    [][\A s \in SeqSlots :
          /\ (pc[s] = "idle" /\ pc'[s] = "bulkRow") =>
                /\ local'[s].recordsProcessed = 0
                /\ local'[s].errors = << >>
                /\ Len(local'[s].rows) = DataLineCount(local'[s].lines)
                /\ StoredRecords' = StoredRecords
          /\ (pc[s] = "idle" /\ BulkDone(s)') =>
                /\ local'[s].recordsProcessed = 0
                /\ local'[s].errors = << >>
                /\ local'[s].totalRows = DataLineCount(local'[s].lines)
                /\ StoredRecords' = StoredRecords
          /\ (InRowLoop(s) /\ InRowLoop(s)') =>
                /\ local'[s].recordsProcessed - local[s].recordsProcessed
                     = StoredRecords' - StoredRecords
                /\ local'[s].lines = local[s].lines
                /\ \A j, k \in 1..Len(local'[s].errors) :
                      j < k => local'[s].errors[j].row < local'[s].errors[k].row
          /\ (InRowLoop(s) /\ BulkDone(s)') =>
                /\ local'[s].recordsProcessed = local[s].recordsProcessed
                /\ local'[s].totalRows = DataLineCount(local[s].lines)
                /\ Len(local'[s].errors) <= ErrorLimit
                /\ local'[s].errors = FirstOf(ErrorLimit, local[s].errors)
                /\ StoredRecords' = StoredRecords]_vars

\* A result over more failing rows than are reported, with one record
\* created.
C13_Witness ==
    \E s \in SeqSlots :
        /\ BulkDone(s)
        /\ local[s].totalRows = ErrorLimit + 2
        /\ Len(local[s].errors) = ErrorLimit
        /\ local[s].recordsProcessed = 1

\* Some competitor's name equals the text, letter case aside.
NameMatches(text) ==
    /\ text # Undefined
    /\ \E c \in DOMAIN competitors : Lower(competitors[c].name) = Lower(text)

\* C14: in a pricing bulk upload a row whose competitor field matches no
\* competitor name creates no pricing observation, leaves recordsProcessed
\* as it was and adds one row error that carries that name; a row that
\* matches goes on to its insert, which stores one observation of a
\* competitor of that name and counts it.
C14_UnknownCompetitorRow ==
    [][\A s \in SeqSlots :
          /\ (pc[s] = "bulkRow" /\ local[s].type = "pricing"
                /\ local[s].i <= Len(local[s].rows) /\ local'[s] # local[s]) =>
                LET name == local[s].rows[local[s].i].competitor
                IN IF NameMatches(name)
                   THEN /\ pc'[s] = "bulkInsert"
                        /\ local'[s].found \in DOMAIN competitors
                        /\ Lower(competitors[local'[s].found].name) = Lower(name)
                   ELSE /\ pc'[s] = "bulkRow"
                        /\ pricingData' = pricingData
                        /\ local'[s].recordsProcessed = local[s].recordsProcessed
                        /\ local'[s].errors
                             = Append(local[s].errors,
                                      [row |-> local[s].i + 1, msg |-> "not found",
                                       name |-> name])
          /\ (pc[s] = "bulkInsert" /\ pc'[s] # pc[s]) =>
                /\ local'[s].recordsProcessed = local[s].recordsProcessed + 1
                /\ local'[s].errors = local[s].errors
                /\ \E k \in DOMAIN pricingData' \ DOMAIN pricingData :
                      /\ pricingData'[k].competitorId = local[s].found
                      /\ DOMAIN pricingData' = DOMAIN pricingData \cup {k}]_vars

\* A result of a pricing file whose first row named no competitor and whose
\* last row, after the failures, was created.
C14_Witness ==
    \E s \in SeqSlots :
        /\ BulkDone(s)
        /\ local[s].type = "pricing"
        /\ local[s].errors # << >>
        /\ local[s].errors[1] = [row |-> 2, msg |-> "not found", name |-> "Zed"]
        /\ local[s].recordsProcessed = 1
        /\ pricingData # << >>

\* Slot s has taken the first step of a bulk upload whose file was staged
\* and whose session passed the gate.
BulkStarted(s) ==
    /\ pc[s] = "idle"
    /\ pc'[s] # "idle"
    /\ local'[s].op = "bulkUpload"
    /\ "lines" \in DOMAIN local'[s]

\* C15: a bulk upload whose file has fewer than 2 non-blank lines fails as
\* a whole with 400 and creates no competitor or pricing record; a file
\* with a header and a data line does not fail so.
C15_EmptyFileRejected ==
    [][\A s \in SeqSlots :
          BulkStarted(s) =>
              IF DataLineCount(local'[s].lines) < 1
              THEN /\ pc'[s] = "done"
                   /\ local'[s].status = 400
                   /\ competitors' = competitors
                   /\ pricingData' = pricingData
              ELSE ~(pc'[s] = "done" /\ local'[s].status = 400)]_vars

\* The rejection of a file that holds a header and a blank line, sent while
\* the store holds records.
C15_Witness ==
    \E s \in SeqSlots :
        /\ pc[s] = "done"
        /\ local[s].op = "bulkUpload"
        /\ local[s].status = 400
        /\ local[s].staged
        /\ Len(local[s].lines) = 2
        /\ competitors # << >>

\* C16 as claimed: the file staged for a bulk upload no longer exists when
\* the response is sent, so with one request at a time uploads/ is empty
\* whenever no handler is running.
C16_TempFileRemoved ==
    \A s \in SeqSlots : pc[s] \in {"idle", "done"} => uploads = 0

\* The handler of slot s has answered a request of the kind op in one step.
Answered(s, op) == pc[s] = "idle" /\ pc'[s] = "done" /\ local'[s].op = op

\* The session is one of an account whose role is admin.
IsAdminSession(u) == u \in DOMAIN users /\ users[u].role = "admin"

\* C17: DELETE /api/users/:id from a session whose role is not admin is
\* answered 403 for every id and removes no user; from an admin on the
\* admin's own id it is answered 400 and the account still exists.
C17_DeleteUserGate ==
    [][\A s \in SeqSlots :
          Answered(s, "deleteUser") =>
              /\ ~IsAdminSession(local'[s].user) =>
                    /\ local'[s].status = 403
                    /\ users' = users
              /\ (IsAdminSession(local'[s].user) /\ local'[s].id = local'[s].user) =>
                    /\ local'[s].status = 400
                    /\ users' = users
                    /\ local'[s].user \in DOMAIN users']_vars

\* An admin other than the seeded one has been refused its own deletion.
C17_Witness ==
    \E s \in SeqSlots :
        /\ pc[s] = "done"
        /\ local[s].op = "deleteUser"
        /\ local[s].status = 400
        /\ local[s].id = local[s].user
        /\ local[s].user # 1

\* The routes behind requireAdmin, and every route that writes.
AdminOps == {"deleteCompetitor", "createUser", "updateUser", "deleteUser"}
WriteOps ==
    AdminOps \cup {"createCompetitor", "updateCompetitor", "createPricing", "bulkUpload"}

\* The tables of the Data Store.
Store == <<users, competitors, pricingData>>

\* The session's role is one the gate of the route lets through.
PassesGate(u, op) ==
    /\ u \in DOMAIN users
    /\ users[u].role \in (IF op \in AdminOps THEN {"admin"} ELSE {"admin", "analyst"})

\* Slot s has answered, in one step, a request its gate turned away.
Rejected(s) == pc[s] = "idle" /\ pc'[s] = "done" /\ local'[s].status \in {401, 403}

\* C18 as claimed: the Data Store changes only through a request whose
\* session passes the gate of its route (admin or analyst for competitor
\* and pricing creation, competitor update and bulk upload; admin for
\* competitor deletion and for user creation, update and deletion); a
\* request whose session does not pass is answered 401 or 403 and leaves
\* every table unchanged.
C18_OnlyGatedWrites ==
    [][\A s \in SeqSlots :
          /\ Store' # Store =>
                /\ local'[s].op \in WriteOps
                /\ PassesGate(local'[s].user, local'[s].op)
          /\ Rejected(s) => Store' = Store]_vars

\* C18 amended: on the competitor, pricing, bulk-upload and /api/users
\* routes the Data Store changes only through a request whose session
\* passes the gate of its route, and a request whose session does not pass
\* is answered 403 and leaves every table unchanged; the one other change
\* is self-registration, which adds one user from no session.
C18_WritesBehindGates ==
    [][\A s \in SeqSlots :
          /\ Store' # Store =>
                IF local'[s].op = "register"
                THEN /\ competitors' = competitors
                     /\ pricingData' = pricingData
                     /\ \E id \in DOMAIN users' \ DOMAIN users :
                           users' = users @@ (id :> users'[id])
                ELSE /\ local'[s].op \in WriteOps
                     /\ PassesGate(local'[s].user, local'[s].op)
          /\ (pc[s] = "idle" /\ pc'[s] # "idle" /\ local'[s].op \in WriteOps) =>
                (~PassesGate(local'[s].user, local'[s].op)
                   <=> (pc'[s] = "done" /\ local'[s].status = 403))
          /\ Rejected(s) => Store' = Store]_vars

\* The analyst has been refused the deletion of a competitor, which is
\* still there.
C18_Witness ==
    \E s \in SeqSlots :
        /\ pc[s] = "done"
        /\ local[s].op = "deleteCompetitor"
        /\ local[s].status = 403
        /\ local[s].user = 2
        /\ 1 \in DOMAIN competitors

\* The rows of the name in a competitors table.
NameCountIn(T, name) == Cardinality({c \in DOMAIN T : T[c].name = name})
NameCount(name) == NameCountIn(competitors, name)

\* The row is well formed: a name, numerals where a cell is filled, a share
\* that fits, a trend of the enum or none.
WellFormedRow(row) ==
    /\ row.name \notin {"", Undefined}
    /\ row.price_range_min.kind # "text"
    /\ row.price_range_max.kind # "text"
    /\ row.market_share.kind # "text"
    /\ row.market_share.kind = "dec" => Abs(row.market_share.val) < ShareLimit
    /\ row.trend_status \in TrendStatuses \cup {"", Undefined}

DuplicateInStore(row) ==
    \E c \in DOMAIN competitors :
        LET v == NewCompetitor(CompetitorFromRow(row), competitors[c].createdBy)
        IN /\ competitors[c].name = v.name
           /\ competitors[c].category = v.category
           /\ competitors[c].priceRangeMin = v.priceRangeMin
           /\ competitors[c].priceRangeMax = v.priceRangeMax
           /\ competitors[c].marketShare = v.marketShare
           /\ competitors[c].trendStatus = v.trendStatus

\* C20 as claimed: duplicate entries of a bulk upload are skipped; a data
\* row that duplicates an entry already in the Data Store creates no second
\* record.
C20_DuplicatesSkipped ==
    [][\A s \in Slots :
          (CompetitorRowStep(s) /\ DuplicateInStore(local[s].rows[local[s].i])) =>
              competitors' = competitors]_vars

\* ----------------------------------------------- the cells of a bulk upload
\* A competitors file whose trend_status cells are empty, a text that is no
\* member of the enum, and a member; one whose header has no trend_status
\* column; a pricing file whose price cells are a negative numeral, a text
\* that is no numeral, an empty cell and a numeral.
CellFiles ==
    {File(<<HeaderLine, CompetitorLine("Acme", Dec(0), Dec(1001), Dec(2550), ""),
            CompetitorLine("Bolt", Dec(0), Dec(1001), Dec(2550), "rising"),
            CompetitorLine("Cody", Dec(0), Dec(1001), Dec(2550), "growing")>>),
     File(<<HeaderLine, CompetitorLine("Dora", Dec(0), Dec(1001), Dec(2550), Undefined)>>),
     File(<<HeaderLine, PricingLine("Acme", Dec(-500)), PricingLine("Acme", NotNumeral),
            PricingLine("Acme", EmptyText), PricingLine("Acme", Dec(1000))>>)}

\* req.body.type: a type the upload page offers, or none.
CellTypes == UploadTypes \cup {Undefined}

\* POST /api/bulk-upload by the seeded analyst, one request at a time.
NextCells ==
    \E s \in SeqSlots :
        \/ \E f \in CellFiles, ty \in CellTypes : BulkStart(s, 2, f, ty, MaxUploads)
        \/ BulkCompetitorRow(s, MaxCompetitors)
        \/ BulkPricingFind(s)
        \/ BulkPricingInsert(s, MaxPricing)
        \/ BulkEnd(s)
        \/ Finish(s)

SpecCells == Init /\ [][NextCells]_vars

\* The row would be inserted if its trend_status were stable.
OtherwiseInsertable(row, createdBy) ==
    CompetitorInsertable([CompetitorFromRow(row) EXCEPT !.trendStatus = "stable"], createdBy)

\* C23 as claimed: in a competitors bulk upload a row whose trend_status is
\* not one of growing, declining, stable (empty and absent included) creates
\* a competitor with trendStatus stable; no other text reaches the INSERT
\* and the row adds no error.
C23_TrendStatusDefaults ==
    [][\A s \in SeqSlots :
          (CompetitorRowStep(s)
             /\ local[s].rows[local[s].i].trend_status \notin TrendStatuses
             /\ OtherwiseInsertable(local[s].rows[local[s].i], local[s].user)) =>
              /\ CompetitorFromRow(local[s].rows[local[s].i]).trendStatus = "stable"
              /\ local'[s].errors = local[s].errors
              /\ competitorSeq' \in DOMAIN competitors'
              /\ competitorSeq' \notin DOMAIN competitors
              /\ competitors'[competitorSeq'].trendStatus = "stable"]_vars

\* Slot s has taken the INSERT step of the pricing branch over row i and a
\* row was stored.
PricingRowStored(s) ==
    /\ pc[s] = "bulkInsert"
    /\ pricingSeq' = pricingSeq + 1

\* C24 as claimed: every pricing observation a pricing bulk upload creates
\* has a price that is not negative, and 0 when the cell is no numeral or
\* absent.
C24_BulkPriceNonNegative ==
    [][\A s \in SeqSlots :
          PricingRowStored(s) =>
              /\ pricingData'[pricingSeq'].price >= 0
              /\ ParseFloat(local[s].rows[local[s].i].price).nan =>
                    pricingData'[pricingSeq'].price = 0]_vars

\* The row errors a request has collected when it answers: the errors of
\* the loop it leaves, none when it never entered the loop.
CollectedErrors(s) == IF InRowLoop(s) THEN Len(local[s].errors) ELSE 0

\* C29 as claimed: no data row of a bulk upload is dropped silently; for
\* every file and every value of type, recordsProcessed plus the number of
\* collected row errors is totalRows.
C29_NoRowDropped ==
    [][\A s \in SeqSlots :
          (pc[s] # "done" /\ BulkDone(s)') =>
              local'[s].recordsProcessed + CollectedErrors(s) = local'[s].totalRows]_vars

\* ------------------------------------------- the frame of a competitor update
\* The partial bodies of SpecUpdate: a trend alone, a name and a ceiling, a
\* share that is a string but no numeral, and a trend outside the enum.
UpdateBodies ==
    {[NoFields EXCEPT !.trendStatus = "declining"],
     [NoFields EXCEPT !.name = "Bolt", !.priceRangeMax = Dec(100)],
     [NoFields EXCEPT !.marketShare = NotNumeral],
     [NoFields EXCEPT !.trendStatus = "rising"]}

\* The sessions of SpecUpdate: the seeded analyst and the seeded viewer.
UpdateSessions == {2, 3}

\* Competitor creation and update with the clock running between requests.
NextUpdate ==
    \/ TickBetweenRequests
    \/ \E s \in SeqSlots :
        \/ CreateCompetitor(s, 2, SeedBody("Acme"), FewCompetitors)
        \/ \E u \in UpdateSessions, id \in 1..FewCompetitors, b \in UpdateBodies :
              UpdateCompetitor(s, u, id, b)
        \/ Finish(s)

SpecUpdate == Init /\ [][NextUpdate]_vars

\* Row r2 differs from row r exactly by the fields body b names and by
\* updatedAt, which is the time of the request.
ChangedAsBodySays(r, r2, b) ==
    /\ r2.name = (IF b.name = Undefined THEN r.name ELSE b.name)
    /\ r2.category = (IF b.category = Undefined THEN r.category ELSE b.category)
    /\ r2.priceRangeMin
         = (IF b.priceRangeMin = NoText THEN r.priceRangeMin ELSE b.priceRangeMin.val)
    /\ r2.priceRangeMax
         = (IF b.priceRangeMax = NoText THEN r.priceRangeMax ELSE b.priceRangeMax.val)
    /\ r2.marketShare = (IF b.marketShare = NoText THEN r.marketShare ELSE b.marketShare.val)
    /\ r2.trendStatus = (IF b.trendStatus = Undefined THEN r.trendStatus ELSE b.trendStatus)
    /\ r2.updatedAt = now
    /\ r2.createdAt = r.createdAt
    /\ r2.createdBy = r.createdBy

\* C25 as claimed: PUT /api/competitors/:id with a body that passes the
\* schema, for an id that matches no competitor, is answered 404 and changes
\* no row; for an existing id it changes exactly the fields of the body and
\* updatedAt of that row, and no other row.
C25_UpdateFrame ==
    [][\A s \in SeqSlots, u \in UpdateSessions, id \in 1..FewCompetitors, b \in UpdateBodies :
          (/\ UpdateCompetitor(s, u, id, b)
           /\ RequireAnalystOrAdmin(u) = 0
           /\ ValidPartialCompetitorBody(b)) =>
              IF id \notin DOMAIN competitors
              THEN /\ local'[s].status = 404
                   /\ competitors' = competitors
              ELSE local'[s].status = 200 =>
                   /\ DOMAIN competitors' = DOMAIN competitors
                   /\ \A c \in DOMAIN competitors \ {id} : competitors'[c] = competitors[c]
                   /\ ChangedAsBodySays(competitors[id], competitors'[id], b)]_vars

\* ------------------------------------------------ the owners of competitors
\* The analyst creates competitors, one by one and by file, and the admin
\* deletes competitors and users, in requests that interleave.
NextOwners ==
    \E s \in Slots :
        \/ CreateCompetitor(s, 2, SeedBody("Acme"), FewCompetitors)
        \/ BulkStart(s, 2, DupFile, "competitors", MaxUploads)
        \/ BulkCompetitorRow(s, FewCompetitors)
        \/ BulkEnd(s)
        \/ \E id \in 1..FewCompetitors : DeleteCompetitorPricing(s, 1, id)
        \/ DeleteCompetitorRow(s)
        \/ \E id \in DOMAIN SeededUsers : DeleteUser(s, 1, id)
        \/ Finish(s)

SpecOwners == Init /\ [][NextOwners]_vars

\* C26: the createdBy of every competitor is null or the id of an existing
\* user (the model's rows always carry an id), and the deletion of a user
\* that competitors reference is refused: the user and the references stay.
C26_OwnersExist ==
    /\ [](\A c \in DOMAIN competitors : competitors[c].createdBy \in DOMAIN users)
    /\ [][\A s \in Slots :
             (Answered(s, "deleteUser") /\ CreatedBy(local'[s].id) # {}) =>
                 /\ local'[s].status \notin {200, 204}
                 /\ users' = users
                 /\ competitors' = competitors]_vars

\* The admin has been refused the deletion of the analyst, who owns a
\* competitor.
C26_Witness ==
    \E s \in Slots :
        /\ pc[s] = "done"
        /\ local[s].op = "deleteUser"
        /\ local[s].user = 1
        /\ local[s].id = 2
        /\ local[s].status = 500
        /\ 2 \in DOMAIN users
        /\ CreatedBy(2) # {}

\* ------------------------------------------------- the metrics under writes
\* The competitor bodies of SpecSnapshot: a growing and a declining one.
SnapshotBodies ==
    {[SeedBody("Acme") EXCEPT !.trendStatus = "growing"],
     [SeedBody("Bolt") EXCEPT !.trendStatus = "declining", !.priceRangeMin = Dec(500)]}

\* The admin creates and deletes competitors while the dashboard metrics are
\* computed, query by query, by another request.
NextSnapshot ==
    \E s \in Slots :
        \/ \E b \in SnapshotBodies : CreateCompetitor(s, 1, b, FewCompetitors)
        \/ \E id \in 1..FewCompetitors : DeleteCompetitorPricing(s, 1, id)
        \/ DeleteCompetitorRow(s)
        \/ MetricsCount(s, 1)
        \/ MetricsAvg(s)
        \/ MetricsShare(s)
        \/ MetricsTrend(s)
        \/ Finish(s)

SpecSnapshot == Init /\ [][NextSnapshot]_vars

\* C27 as claimed: the record of one getDashboardMetrics call is a snapshot
\* of one state of the competitor table, whatever writes interleave with
\* the call; so the count returned as totalCompetitors is the total the
\* trend query counts for trendScore, and a record that counts no
\* competitor carries the metrics of the empty table.
C27_MetricsSnapshot ==
    [][\A s \in Slots :
          (pc[s] = "metricsTrend" /\ MetricsDone(s)') =>
              /\ local[s].count = SqlTrend(competitors).total
              /\ local'[s].body.totalCompetitors = 0 =>
                    local'[s].body = MetricsRecord(SqlCount(<< >>), SqlAvgPrice(<< >>),
                                                   SqlSumShare(<< >>), SqlTrend(<< >>))]_vars

\* C28 as claimed: deleteCompetitor is all or nothing under interleaving;
\* the request whose first statement removed pricing rows of a competitor
\* does not end with that competitor still in the table.
C28_DeleteAllOrNothing ==
    [][\A s \in Slots :
          (pc[s] = "deleteRow" /\ pc'[s] = "done" /\ local[s].removed) =>
              local[s].id \notin DOMAIN competitors']_vars

\* ------------------------------------------- pricing rows of a shared name
\* The competitor bodies of SpecFirst: a name in upper case and another
\* name.
FirstBodies == {SeedBody("ACME"), SeedBody("Bolt")}

\* The file of SpecFirst: one pricing row that names Acme in lower case.
FirstFile == File(<<HeaderLine, PricingLine("acme", Dec(1000))>>)

\* The analyst creates competitors at time 0, any number of them with the
\* same name, touches them at later times with an update that names no
\* field, and uploads the pricing file, one request at a time.
NextFirst ==
    \/ TickBetweenRequests
    \/ \E s \in SeqSlots :
        \/ now = 0 /\ \E b \in FirstBodies : CreateCompetitor(s, 2, b, FewCompetitors)
        \/ \E id \in 1..FewCompetitors : UpdateCompetitor(s, 2, id, NoFields)
        \/ BulkStart(s, 2, FirstFile, "pricing", MaxUploads)
        \/ BulkPricingFind(s)
        \/ BulkPricingInsert(s, GateRows)
        \/ BulkEnd(s)
        \/ Finish(s)

SpecFirst == Init /\ [][NextFirst]_vars

\* The competitors whose name is the given one but for case.
MatchesOf(name) == {c \in DOMAIN competitors : Lower(competitors[c].name) = Lower(name)}

\* C30: when several competitors match the competitor field of a pricing
\* row but for case, the row creates exactly one pricing observation,
\* attached to the match that comes first in getAllCompetitors order, a
\* most recently updated one, and none for any other match.
C30_FirstMatchGetsPrice ==
    [][\A s \in SeqSlots :
          /\ (pc[s] = "bulkRow" /\ pc'[s] = "bulkInsert") =>
                /\ local'[s].found \in MatchesOf(local[s].rows[local[s].i].competitor)
                /\ \A o \in MatchesOf(local[s].rows[local[s].i].competitor) :
                      competitors[o].updatedAt <= competitors[local'[s].found].updatedAt
                /\ pricingData' = pricingData
          /\ (pc[s] = "bulkInsert" /\ pc'[s] # "bulkInsert") =>
                /\ local'[s].recordsProcessed = local[s].recordsProcessed + 1
                /\ \E k \in DOMAIN pricingData' \ DOMAIN pricingData :
                      /\ DOMAIN pricingData' = DOMAIN pricingData \cup {k}
                      /\ pricingData'[k].competitorId = local[s].found
                      /\ \A j \in DOMAIN pricingData : pricingData'[j] = pricingData[j]]_vars

\* An upload has returned with its one row created for the first of two
\* competitors of the name, which was updated after the second; the second
\* has no pricing row.
C30_Witness ==
    \E s \in SeqSlots, c1, c2 \in DOMAIN competitors, k \in DOMAIN pricingData :
        /\ BulkDone(s)
        /\ local[s].recordsProcessed = 1
        /\ c1 < c2
        /\ {c1, c2} \subseteq MatchesOf("acme")
        /\ competitors[c1].updatedAt > competitors[c2].updatedAt
        /\ pricingData[k].competitorId = c1
        /\ pricingData[k].recordedAt = now
        /\ PricingOf(pricingData, c2) = {}

\* C21: in POST /api/users a failure to send the temporary-password email
\* never fails the creation: whether the email was sent or threw, the
\* request that inserted a user is answered 201 with the created user, the
\* row remains, and its stored password is the hash of the generated
\* temporary password, never the text itself.
C21_EmailFailureKeepsUser ==
    [][\A s \in SeqSlots :
          (Answered(s, "createUser") /\ users' # users) =>
              /\ local'[s].status = 201
              /\ local'[s].id \in DOMAIN users'
              /\ users'[local'[s].id].password = Hash(local'[s].tempPassword)
              /\ users'[local'[s].id].password # Plain(local'[s].tempPassword)
              /\ local'[s].body = SafeUser(users'[local'[s].id])]_vars

\* A user has been created although its email threw.
C21_Witness ==
    \E s \in SeqSlots :
        /\ pc[s] = "done"
        /\ local[s].op = "createUser"
        /\ local[s].status = 201
        /\ ~local[s].emailed
        /\ local[s].id \in DOMAIN users
        /\ users[local[s].id].password.hashed

\* C22: no response of GET /api/users, POST /api/users or PUT
\* /api/users/:id carries a password field, and PUT /api/users/:id never
\* changes a stored password, even when the request body carries one.
C22_PasswordNeverLeaves ==
    [][\A s \in SeqSlots :
          /\ (Answered(s, "getUsers") /\ local'[s].status = 200) =>
                \A id \in DOMAIN local'[s].body : "password" \notin DOMAIN local'[s].body[id]
          /\ (Answered(s, "createUser") /\ local'[s].status = 201) =>
                "password" \notin DOMAIN local'[s].body
          /\ (Answered(s, "updateUser") /\ local'[s].status = 200) =>
                "password" \notin DOMAIN local'[s].body
          /\ Answered(s, "updateUser") =>
                \A id \in DOMAIN users :
                    id \in DOMAIN users' /\ users'[id].password = users[id].password]_vars

\* An update whose body carried a password has been answered 200.
C22_Witness ==
    \E s \in SeqSlots :
        /\ pc[s] = "done"
        /\ local[s].op = "updateUser"
        /\ local[s].status = 200
        /\ local[s].req.password # Undefined
        /\ users[local[s].id].password = Hash("seed")

====
